---------------------------- MODULE Spec2Model ----------------------------
(***************************************************************************)
(* Model of the SQL-to-relational-algebra converter of                     *)
(* src/components/relational-algebra-converter.tsx.                        *)
(*                                                                         *)
(* Text is a sequence of lexemes instead of a sequence of characters: every *)
(* whitespace character is a lexeme of its own (" " or "\n"), every         *)
(* punctuation character is a lexeme of its own, and a maximal run of word  *)
(* characters (\w+) is one lexeme.  The regular expressions of the source   *)
(* are evaluated over these lexemes with JavaScript's rules: the leftmost   *)
(* match wins, alternatives are tried in the order written, a greedy        *)
(* quantifier gives characters back one at a time, a lazy group takes the   *)
(* shortest text that lets the rest match, "." does not match a line break, *)
(* and "$" (no m flag) is the end of the text.  Word lexemes of the model   *)
(* contain a keyword only where listed (SELECTED).                          *)
(***************************************************************************)
EXTENDS Naturals, Sequences, FiniteSets, TLC

VARIABLES
    sqlQuery,           \* the sqlQuery prop, as lexemes
    relationalAlgebra,  \* useState<string>(""), as lexemes
    error,              \* useState<string | null>(null)
    effectDue,          \* sqlQuery has changed and the effect has not run yet
    typed,              \* the statement the user typed, by its parts (history)
    \* SQLiteCodePad (src/app/page.tsx)
    sqliteReady,        \* useState(false)
    db,                 \* useState<any>(null)
    fileName,           \* useState<string | null>(null)
    pageQuery,          \* the page's useState("SELECT * ... > 30000;") `query`
    pageResult,         \* the page's useState<QueryResult | null>(null) `result`
    pageError,          \* the page's own useState<string | null>(null) `error`
    isLoading,          \* useState(false)
    boot,               \* how far the two loading effects have come
    called              \* the branch the last executeQuery call took (history)

converterVars == <<sqlQuery, relationalAlgebra, error, effectDue, typed>>

pageVars ==
    <<sqliteReady, db, fileName, pageQuery, pageResult, pageError, isLoading, boot,
      called>>

vars == <<converterVars, pageVars>>

(***************************************************************************)
(* Lexemes                                                                 *)
(***************************************************************************)
Space == {" ", "\n"}

Punct == {",", ".", ";", "*", "(", ")", "=", ">", "'"}

IsSpace(t) == t \in Space

IsDot(t) == t # "\n"

IsWord(t) == t \notin Space \cup Punct

NotSemi(t) == t # ";"

Fold ==
    [select |-> "SELECT", from |-> "FROM", where |-> "WHERE", desc |-> "DESC",
     Desc |-> "DESC", asc |-> "ASC", join |-> "JOIN", left |-> "LEFT",
     Left |-> "LEFT", on |-> "ON", outer |-> "OUTER", distinct |-> "DISTINCT",
     group |-> "GROUP", by |-> "BY", order |-> "ORDER", having |-> "HAVING",
     inner |-> "INNER", right |-> "RIGHT", full |-> "FULL",
     update |-> "UPDATE", with |-> "WITH"]

Upper(t) == IF t \in DOMAIN Fold THEN Fold[t] ELSE t

toUpperCase(s) == [i \in 1..Len(s) |-> Upper(s[i])]

Min(S) == CHOOSE x \in S : \A y \in S : x <= y

Max(S) == CHOOSE x \in S : \A y \in S : x >= y

\* The first position at or after i that holds no whitespace (Len(s)+1 if none).
RunEnd(s, i) ==
    LET rest == {j \in i..Len(s) : ~IsSpace(s[j])}
    IN  IF rest = {} THEN Len(s) + 1 ELSE Min(rest)

trim(s) ==
    LET keep == {j \in 1..Len(s) : ~IsSpace(s[j])}
    IN  IF keep = {} THEN <<>> ELSE SubSeq(s, Min(keep), Max(keep))

\* The variant that looks for SELECT anywhere in the text (includes in place
\* of startsWith).
containsSELECT(s) == \E i \in 1..Len(s) : s[i] \in {"SELECT", "SELECTED"}

startsWithSELECT(s) == Len(s) > 0 /\ s[1] \in {"SELECT", "SELECTED"}

RECURSIVE split(_, _)
split(s, c) ==
    LET at == {i \in 1..Len(s) : s[i] = c}
    IN  IF at = {} THEN <<s>>
        ELSE <<SubSeq(s, 1, Min(at) - 1)>>
                 \o split(SubSeq(s, Min(at) + 1, Len(s)), c)

RECURSIVE splitSpaces(_)
splitSpaces(s) ==
    LET at == {i \in 1..Len(s) : IsSpace(s[i])}
    IN  IF at = {} THEN <<s>>
        ELSE <<SubSeq(s, 1, Min(at) - 1)>>
                 \o splitSpaces(SubSeq(s, RunEnd(s, Min(at)), Len(s)))

RECURSIVE Flatten(_, _)
Flatten(ss, sep) ==
    IF Len(ss) = 0 THEN <<>>
    ELSE IF Len(ss) = 1 THEN ss[1]
    ELSE ss[1] \o sep \o Flatten(Tail(ss), sep)

(***************************************************************************)
(* Regular-expression pieces                                               *)
(***************************************************************************)
\* A keyword phrase W1\s+W2\s+...Wn at position i, compared with the i flag:
\* the position after it, or 0.
RECURSIVE PhraseEnd(_, _, _)
PhraseEnd(s, i, ph) ==
    IF i > Len(s) \/ Upper(s[i]) # Head(ph) THEN 0
    ELSE IF Len(ph) = 1 THEN i + 1
    ELSE LET j == RunEnd(s, i + 1)
         IN  IF j = i + 1 THEN 0 ELSE PhraseEnd(s, j, Tail(ph))

\* (?:P1|P2|...) at position i: the end of the first alternative that matches.
RECURSIVE AnyPhraseEnd(_, _, _)
AnyPhraseEnd(s, i, phs) ==
    IF Len(phs) = 0 THEN 0
    ELSE LET e == PhraseEnd(s, i, Head(phs))
         IN  IF e # 0 THEN e ELSE AnyPhraseEnd(s, i, Tail(phs))

\* \s+(?:P1|P2|...) at position p.
SpacePhraseAt(s, p, phs) ==
    LET j == RunEnd(s, p) IN j > p /\ AnyPhraseEnd(s, j, phs) # 0

AtEnd(s, p) == p = Len(s) + 1

\* The positions at which the text after a greedy \s+ starting at p may begin,
\* in the order backtracking tries them.
SpaceStarts(s, p) ==
    LET j == RunEnd(s, p) IN [k \in 1..(j - p) |-> j + 1 - k]

\* What may follow a lazy group: \s+ and one of the phrases `spaced`, \s+ and
\* the end of the text (`spacedEnd`), a ";" (`semi`), the end of the text (`end`).
SpacedBoundAt(s, p, b, j) ==
    j > p /\ (AnyPhraseEnd(s, j, b.spaced) # 0 \/ (b.spacedEnd /\ AtEnd(s, j)))

BoundAt(s, p, b) ==
    \/ SpacedBoundAt(s, p, b, RunEnd(s, p))
    \/ b.semi /\ p <= Len(s) /\ s[p] = ";"
    \/ b.end /\ AtEnd(s, p)

\* The character class of a group: "." or [^;].
ClassOk(cls, t) == IF cls = "." THEN IsDot(t) ELSE NotSemi(t)

MinOr0(S) == IF S = {} THEN 0 ELSE Min(S)

MaxOr0(S) == IF S = {} THEN 0 ELSE Max(S)

\* A lazy group (X+?) from start: the last position of the shortest run of
\* lexemes of the class after which the bound holds, or 0.
LazyEnd(s, start, cls, b) ==
    MinOr0({e \in start..Len(s) :
               /\ \A k \in start..e : ClassOk(cls, s[k])
               /\ BoundAt(s, e + 1, b)})

\* A greedy group (.+) from start: the last position of the longest run of
\* lexemes that are no line break, or 0.
GreedyEnd(s, start) ==
    MaxOr0({e \in start..Len(s) : \A k \in start..e : IsDot(s[k])})

NoMatch == [start |-> 0, end |-> 0]

\* The first of starts (a sequence, in backtracking order) whose index is in ok.
FirstOf(starts, ok) == IF ok = {} THEN 0 ELSE starts[Min(ok)]

LazyGroup(s, st, cls, b) ==
    IF st = 0 THEN NoMatch ELSE [start |-> st, end |-> LazyEnd(s, st, cls, b)]

\* The first start of starts (a sequence, in backtracking order) from which
\* the lazy group is found, and that group.
FirstGroup(s, starts, cls, b) ==
    LazyGroup(s,
              FirstOf(starts,
                      {k \in 1..Len(starts) : LazyEnd(s, starts[k], cls, b) # 0}),
              cls, b)

ClauseAfter(s, p, b) ==
    IF p = 0 THEN NoMatch ELSE FirstGroup(s, SpaceStarts(s, p), ".", b)

\* PHRASE\s+(.+?)BOUND at position i: the group.
ClauseAt(s, i, ph, b) == ClauseAfter(s, PhraseEnd(s, i, ph), b)

ClauseAtOr(s, i, ph, b) == IF i = 0 THEN NoMatch ELSE ClauseAt(s, i, ph, b)

\* String.prototype.match without the g flag: the leftmost match.
ClauseMatch(s, ph, b) ==
    ClauseAtOr(s, MinOr0({i \in 1..Len(s) : ClauseAt(s, i, ph, b) # NoMatch}),
               ph, b)

Group(s, m) == SubSeq(s, m.start, m.end)

(***************************************************************************)
(* parseSQL                                                                *)
(***************************************************************************)
null == [null |-> TRUE]

JoinPhrases ==
    << <<"INNER", "JOIN">>, <<"LEFT", "OUTER", "JOIN">>,
       <<"RIGHT", "OUTER", "JOIN">>, <<"FULL", "OUTER", "JOIN">>,
       <<"LEFT", "JOIN">>, <<"RIGHT", "JOIN">>, <<"FULL", "JOIN">>,
       <<"JOIN">> >>

Bound(spaced, spacedEnd, semi, end) ==
    [spaced |-> spaced, spacedEnd |-> spacedEnd, semi |-> semi, end |-> end]

\* \s+FROM
SelectBound == Bound(<< <<"FROM">> >>, FALSE, FALSE, FALSE)

\* (?:\s+WHERE|\s+JOIN|\s+GROUP\s+BY|\s+ORDER\s+BY|\s+HAVING|$)
FromBound ==
    Bound(<< <<"WHERE">>, <<"JOIN">>, <<"GROUP", "BY">>, <<"ORDER", "BY">>,
             <<"HAVING">> >>, FALSE, FALSE, TRUE)

\* (?:\s+GROUP\s+BY|\s+ORDER\s+BY|\s+HAVING|$)
WhereBound ==
    Bound(<< <<"GROUP", "BY">>, <<"ORDER", "BY">>, <<"HAVING">> >>,
          FALSE, FALSE, TRUE)

\* (?=\s+(?:INNER\s+JOIN|...|JOIN|WHERE|GROUP\s+BY|ORDER\s+BY|HAVING|$))
JoinBound ==
    Bound(JoinPhrases \o << <<"WHERE">>, <<"GROUP", "BY">>, <<"ORDER", "BY">>,
                            <<"HAVING">> >>, TRUE, FALSE, FALSE)

\* (?:\s+HAVING|\s+ORDER\s+BY|$)
GroupByBound == Bound(<< <<"HAVING">>, <<"ORDER", "BY">> >>, FALSE, FALSE, TRUE)

\* (?:;|$)
OrderByBound == Bound(<< >>, FALSE, TRUE, TRUE)

\* (?:\s+ORDER\s+BY|$)
HavingBound == Bound(<< <<"ORDER", "BY">> >>, FALSE, FALSE, TRUE)

DistinctStarts(s, i, j) ==
    IF j > i + 1 /\ PhraseEnd(s, j, <<"DISTINCT">>) # 0
    THEN SpaceStarts(s, j + 1) ELSE <<>>

\* The variant without (?:DISTINCT\s+)?.
SelectStartsPlain(s, i) == SpaceStarts(s, i + 1)

\* SELECT\s+(?:DISTINCT\s+)? at position i: where the column text may begin, the
\* optional DISTINCT tried first.
SelectStarts(s, i) == DistinctStarts(s, i, RunEnd(s, i + 1)) \o SpaceStarts(s, i + 1)

SelectAt(s, i) ==
    IF i = 0 \/ Upper(s[i]) # "SELECT" THEN NoMatch
    ELSE FirstGroup(s, SelectStarts(s, i), ".", SelectBound)

\* /SELECT\s+(?:DISTINCT\s+)?(.+?)\s+FROM/i
selectMatch(s) ==
    SelectAt(s, MinOr0({i \in 1..Len(s) : SelectAt(s, i) # NoMatch}))

DropThrough(item, d) == IF d = 0 THEN item ELSE SubSeq(item, d + 1, Len(item))

\* replace(/^.*\./, ""): the text after the last "." that "^.*" reaches.
stripPrefix(item) ==
    DropThrough(item,
                MaxOr0({i \in 1..Len(item) :
                           item[i] = "." /\ \A k \in 1..(i - 1) : IsDot(item[k])}))

columnOf(col) == splitSpaces(stripPrefix(trim(col)))[1]

EachColumn(items) == [k \in 1..Len(items) |-> columnOf(items[k])]

columnsOf(columnsStr) ==
    IF columnsStr = <<"*">> THEN << <<"*">> >>
    ELSE EachColumn(split(columnsStr, ","))

EachTable(items) == [k \in 1..Len(items) |-> splitSpaces(trim(items[k]))[1]]

tablesOf(tablesStr) == EachTable(split(tablesStr, ","))

OnAt(s, q, o) ==
    IF o > q /\ o <= Len(s) /\ Upper(s[o]) = "ON"
    THEN SpaceStarts(s, o + 1) ELSE <<>>

\* \s+ON\s+ at position q: where the condition may begin.
OnStarts(s, q) == OnAt(s, q, RunEnd(s, q))

WordAfter(s, pe, t) == IF t > pe /\ t <= Len(s) /\ IsWord(s[t]) THEN t ELSE 0

TableAfter(s, pe) == IF pe = 0 THEN 0 ELSE WordAfter(s, pe, RunEnd(s, pe))

\* JOINPHRASE\s+(\w+) at position i: the position of the table name, or 0.
JoinTableAt(s, i) == TableAfter(s, AnyPhraseEnd(s, i, JoinPhrases))

AliasStarts(s, t, a) ==
    (IF a > t + 1 /\ a <= Len(s) /\ IsWord(s[a]) THEN OnStarts(s, a + 1) ELSE <<>>)
        \o OnStarts(s, t + 1)

StartsAfterTable(s, t) ==
    IF t = 0 THEN <<>> ELSE AliasStarts(s, t, RunEnd(s, t + 1))

\* JOINPHRASE\s+(\w+)(?:\s+\w+)?\s+ON\s+ at position i: where the condition
\* may begin, the path with the optional alias tried first.
JoinStarts(s, i) == StartsAfterTable(s, JoinTableAt(s, i))

\* One match of joinRegex at position i: the condition group ([^;]+?) before
\* the lookahead.
JoinAt(s, i) == FirstGroup(s, JoinStarts(s, i), "[^;]", JoinBound)

\* trimmedQuery.match(joinRegex) with the g flag: the matched texts, left to
\* right, each search resuming where the last match ended.
RECURSIVE joinMatches(_, _)
MatchesFrom(s, i, e) == <<SubSeq(s, i, e)>> \o joinMatches(s, e + 1)

NextMatch(s, i) == IF i = 0 THEN <<>> ELSE MatchesFrom(s, i, JoinAt(s, i).end)

joinMatches(s, from) ==
    NextMatch(s, MinOr0({i \in from..Len(s) : JoinAt(s, i) # NoMatch}))

GreedyStart(m, starts) ==
    FirstOf(starts, {k \in 1..Len(starts) : GreedyEnd(m, starts[k]) # 0})

\* match.match(/JOINPHRASE\s+(\w+)(?:\s+\w+)?\s+ON\s+(.+)/i) at position i of
\* one matched text: the start of group 2, or 0.
PartsAt(m, i) == GreedyStart(m, JoinStarts(m, i))

PhraseFrom(m, i) ==
    IF i = 0 THEN <<"JOIN">>
    ELSE toUpperCase(SubSeq(m, i, AnyPhraseEnd(m, i, JoinPhrases) - 1))

\* The phrase of group 1 of /(JOINPHRASE)/i: the leftmost one in the text.
joinType(m) ==
    PhraseFrom(m, MinOr0({i \in 1..Len(m) : AnyPhraseEnd(m, i, JoinPhrases) # 0}))

joinRecord(m, t, st) ==
    [type |-> joinType(m), table |-> <<m[t]>>,
     condition |-> trim(SubSeq(m, st, GreedyEnd(m, st)))]

PartsFrom(m, i) ==
    IF i = 0 THEN null ELSE joinRecord(m, JoinTableAt(m, i), PartsAt(m, i))

\* The callback of joinMatches.map: a join record, or null.
joinOf(m) == PartsFrom(m, MinOr0({i \in 1..Len(m) : PartsAt(m, i) # 0}))

NotNull(j) == j # null

EachJoin(ms) == SelectSeq([k \in 1..Len(ms) |-> joinOf(ms[k])], NotNull)

joinsOf(s) == EachJoin(joinMatches(s, 1))

EachGroupBy(items) == [k \in 1..Len(items) |-> trim(items[k])]

groupByOf(str) == EachGroupBy(split(str, ","))

\* The variant that compares the direction without toUpperCase.
orderPartsCaseSensitive(parts) ==
    [column |-> parts[1],
     direction |-> IF Len(parts) >= 2 /\ parts[2] = <<"DESC">>
                   THEN "DESC" ELSE "ASC"]

orderParts(parts) ==
    [column |-> parts[1],
     direction |-> IF Len(parts) >= 2 /\ toUpperCase(parts[2]) = <<"DESC">>
                   THEN "DESC" ELSE "ASC"]

orderItem(col) == orderParts(splitSpaces(trim(col)))

EachOrderBy(items) == [k \in 1..Len(items) |-> orderItem(items[k])]

orderByOf(str) == EachOrderBy(split(str, ","))

\* The variant that holds an entry whether or not the clause matched, the
\* empty text when it did not.
conditionsAlways(s, m) == <<IF m = NoMatch THEN <<>> ELSE trim(Group(s, m))>>

\* The optional clauses of the result: the group of a match, or nothing.
conditionsOf(s, m) == IF m = NoMatch THEN <<>> ELSE <<trim(Group(s, m))>>

groupByClause(s, m) == IF m = NoMatch THEN <<>> ELSE groupByOf(Group(s, m))

orderByClause(s, m) == IF m = NoMatch THEN <<>> ELSE orderByOf(Group(s, m))

ParsedQuery(s, sel, from) ==
    IF sel = NoMatch THEN null
    ELSE IF from = NoMatch THEN null
    ELSE [operation  |-> "SELECT",
          tables     |-> tablesOf(Group(s, from)),
          columns    |-> columnsOf(Group(s, sel)),
          conditions |-> conditionsOf(s, ClauseMatch(s, <<"WHERE">>, WhereBound)),
          joins      |-> joinsOf(s),
          groupBy    |-> groupByClause(s, ClauseMatch(s, <<"GROUP", "BY">>,
                                                      GroupByBound)),
          orderBy    |-> orderByClause(s, ClauseMatch(s, <<"ORDER", "BY">>,
                                                      OrderByBound)),
          having     |-> conditionsOf(s, ClauseMatch(s, <<"HAVING">>, HavingBound))]

parseTrimmed(trimmedQuery) ==
    IF ~startsWithSELECT(toUpperCase(trimmedQuery)) THEN null
    ELSE ParsedQuery(trimmedQuery, selectMatch(trimmedQuery),
                     ClauseMatch(trimmedQuery, <<"FROM">>, FromBound))

parseSQL(query) == parseTrimmed(trim(query))

(***************************************************************************)
(* convertToRelationalAlgebra                                              *)
(***************************************************************************)
joinSymbol(type) ==
    IF type = <<"LEFT", " ", "JOIN">> \/ type = <<"LEFT", " ", "OUTER", " ", "JOIN">>
    THEN "⟕"
    ELSE IF type = <<"RIGHT", " ", "JOIN">>
              \/ type = <<"RIGHT", " ", "OUTER", " ", "JOIN">>
    THEN "⟖"
    ELSE IF type = <<"FULL", " ", "JOIN">>
              \/ type = <<"FULL", " ", "OUTER", " ", "JOIN">>
    THEN "⟗"
    ELSE "⋈"

\* replace(/\s+/g, " ")
RECURSIVE collapseSpaces(_)
collapseSpaces(s) ==
    IF Len(s) = 0 THEN <<>>
    ELSE IF IsSpace(s[1])
    THEN <<" ">> \o collapseSpaces(SubSeq(s, RunEnd(s, 1), Len(s)))
    ELSE <<s[1]>> \o collapseSpaces(Tail(s))

baseRelation(tables) ==
    IF Len(tables) = 1 THEN tables[1]
    ELSE <<"(">> \o Flatten(tables, <<" ", "×", " ">>) \o <<")">>

applyJoin(result, join) ==
    <<"(">> \o result \o <<" ", joinSymbol(join.type), "[">>
        \o collapseSpaces(join.condition) \o <<"]", " ">> \o join.table \o <<")">>

RECURSIVE applyJoins(_, _)
applyJoins(result, joins) ==
    IF Len(joins) = 0 THEN result
    ELSE applyJoins(applyJoin(result, Head(joins)), Tail(joins))

\* The lexeme of the logical-and glyph U+2227 of join(" /\ "), which a TLA+
\* string cannot hold.
AndSign == "/\\"

wrap(op, args, result) ==
    <<op, "[">> \o args \o <<"]", "(">> \o result \o <<")">>

applySelection(result, conditions) ==
    IF Len(conditions) > 0
    THEN wrap("σ", Flatten(conditions, <<" ", AndSign, " ">>), result)
    ELSE result

applyGrouping(result, groupBy) ==
    IF Len(groupBy) > 0 THEN wrap("γ", Flatten(groupBy, <<",", " ">>), result)
    ELSE result

includesStar(columns) == \E k \in 1..Len(columns) : columns[k] = <<"*">>

\* The variant that projects unless the list is exactly ["*"].
applyProjectionUnlessOnlyStar(result, columns) ==
    IF Len(columns) > 0 /\ columns # << <<"*">> >>
    THEN wrap("π", Flatten(columns, <<",", " ">>), result)
    ELSE result

applyProjection(result, columns) ==
    IF Len(columns) > 0 /\ ~includesStar(columns)
    THEN wrap("π", Flatten(columns, <<",", " ">>), result)
    ELSE result

applyOrdering(result, orderBy) ==
    IF Len(orderBy) > 0
    THEN wrap("τ",
              Flatten([k \in 1..Len(orderBy) |->
                          orderBy[k].column \o <<" ", orderBy[k].direction>>],
                      <<",", " ">>),
              result)
    ELSE result

\* The variant that applies both selections before the grouping.
convertGroupingLast(parsedQuery) ==
    applyOrdering(
      applyProjection(
        applyGrouping(
          applySelection(
            applySelection(
              applyJoins(baseRelation(parsedQuery.tables), parsedQuery.joins),
              parsedQuery.conditions),
            parsedQuery.having),
          parsedQuery.groupBy),
        parsedQuery.columns),
      parsedQuery.orderBy)

convertToRelationalAlgebra(parsedQuery) ==
    applyOrdering(
      applyProjection(
        applySelection(
          applyGrouping(
            applySelection(
              applyJoins(baseRelation(parsedQuery.tables), parsedQuery.joins),
              parsedQuery.conditions),
            parsedQuery.groupBy),
          parsedQuery.having),
        parsedQuery.columns),
      parsedQuery.orderBy)

(***************************************************************************)
(* The statements typed into the editor.  A statement is described by its  *)
(* parts and written out as text by Text; the converter only ever sees the *)
(* text.                                                                   *)
(***************************************************************************)
MaxTables == 2

MaxJoins == 2

MaxOrderBy == 2

TableNames == <<"EMPLOYEE", "DEPARTMENT", "PROJECT", "A", "B", "C">>

Lowered ==
    ("SELECT" :> "select") @@ ("DISTINCT" :> "distinct") @@ ("FROM" :> "from")
    @@ ("WHERE" :> "where") @@ ("GROUP" :> "group") @@ ("BY" :> "by")
    @@ ("HAVING" :> "having") @@ ("ORDER" :> "order") @@ ("JOIN" :> "join")
    @@ ("ON" :> "on") @@ ("LEFT" :> "left") @@ ("RIGHT" :> "right")
    @@ ("FULL" :> "full") @@ ("INNER" :> "inner") @@ ("OUTER" :> "outer")

Kw(f, w) == IF f.lower THEN Lowered[w] ELSE w

\* The words of a phrase, each pair separated by sep.
Words(f, ph, sep) == Flatten([k \in 1..Len(ph) |-> <<Kw(f, ph[k])>>], sep)

TableText(tb) == IF tb.alias = "" THEN <<tb.name>> ELSE <<tb.name, " ", tb.alias>>

JoinText(f, j) ==
    f.gap \o Words(f, j.phrase, j.sep) \o <<" ">> \o TableText(j)
        \o <<" ", Kw(f, "ON"), " ">> \o j.cond

OrderItemText(o) == IF o.dir = "" THEN o.column ELSE o.column \o <<" ", o.dir>>

ClauseText(f, c) ==
    IF c = "W" THEN
        IF f.where = <<>> THEN <<>>
        ELSE f.gap \o <<Kw(f, "WHERE"), " ">> \o f.where
    ELSE IF c = "G" THEN
        IF f.groupBy = <<>> THEN <<>>
        ELSE f.gap \o Words(f, <<"GROUP", "BY">>, <<" ">>) \o <<" ">>
                 \o Flatten(f.groupBy, <<",", " ">>)
    ELSE IF c = "H" THEN
        IF f.having = <<>> THEN <<>>
        ELSE f.gap \o <<Kw(f, "HAVING"), " ">> \o f.having
    ELSE
        IF f.orderBy = <<>> THEN <<>>
        ELSE f.gap \o Words(f, <<"ORDER", "BY">>, <<" ">>) \o <<" ">>
                 \o Flatten([k \in 1..Len(f.orderBy) |->
                                OrderItemText(f.orderBy[k])], <<",", " ">>)

Text(f) ==
    IF f.kind = "raw" THEN f.text
    ELSE (IF f.lead THEN <<" ">> ELSE <<>>)
         \o <<Kw(f, "SELECT"), " ">>
         \o (IF f.distinct THEN <<Kw(f, "DISTINCT"), " ">> ELSE <<>>)
         \o Flatten(f.cols, <<",", " ">>)
         \o f.gap \o <<Kw(f, "FROM"), " ">>
         \o Flatten([k \in 1..Len(f.tables) |-> TableText(f.tables[k])],
                    <<",", " ">>)
         \o Flatten([k \in 1..Len(f.joins) |-> JoinText(f, f.joins[k])], <<>>)
         \o Flatten([k \in 1..Len(f.order) |-> ClauseText(f, f.order[k])], <<>>)
         \o (IF f.term THEN <<";">> ELSE <<>>)
         \o (IF f.lead THEN <<"\n">> ELSE <<>>)

Raw(text) == [kind |-> "raw", text |-> text]

\* SELECT * FROM EMPLOYEE
Plain ==
    [kind |-> "stmt", lead |-> FALSE, lower |-> FALSE, distinct |-> FALSE,
     cols |-> << <<"*">> >>, tables |-> <<[name |-> "EMPLOYEE", alias |-> ""]>>,
     joins |-> <<>>, where |-> <<>>, groupBy |-> <<>>, having |-> <<>>,
     orderBy |-> <<>>, order |-> <<"W", "G", "H", "O">>, gap |-> <<" ">>,
     term |-> FALSE]

JoinNames == <<"DEPARTMENT", "PROJECT", "SITE", "GRADE">>

Seps == << <<" ">>, <<" ", " ">>, <<"\n">> >>

Conds ==
    << <<"e", ".", "DepartmentID", " ", "=", " ", "d", ".", "ID">>,
       <<"x", " ", " ", "=", " ", "y">>,
       <<"a", " ", "=", " ", "b">> >>

WhereText == <<"Department", " ", "=", " ", "'", "IT", "'">>

HavingText == <<"COUNT", "(", "*", ")", " ", ">", " ", "1">>

\* The j-th JOIN clause of a statement: phrase k of joinRegex, its words sep
\* apart; every other joined table carries an alias.
JoinClause(k, sep, j) ==
    [phrase |-> JoinPhrases[k], sep |-> sep, name |-> JoinNames[j],
     alias |-> IF j % 2 = 1 THEN "d" ELSE "",
     cond |-> Conds[((j - 1) % Len(Conds)) + 1]]

\* n JOIN clauses, the last with phrase k and separator sep, the others
\* alternating JOIN and LEFT JOIN with single spaces.
JoinList(n, k, sep) ==
    [j \in 1..n |-> IF j = n THEN JoinClause(k, sep, j)
                    ELSE JoinClause(IF j % 2 = 1 THEN 8 ELSE 5, <<" ">>, j)]

JoinLists ==
    {<<>>} \cup {JoinList(n, k, Seps[s]) :
                    n \in 1..MaxJoins, k \in 1..Len(JoinPhrases), s \in 1..Len(Seps)}

TableList(n, aliased) ==
    [k \in 1..n |-> [name |-> TableNames[k],
                     alias |-> IF aliased THEN "e" ELSE ""]]

Directions == {"", "ASC", "DESC", "asc", "desc", "Desc"}

\* n ORDER BY items, the last with direction d written out, the others
\* alternating no direction and DESC.
OrderList(n, d) ==
    [k \in 1..n |->
        [column |-> IF k % 2 = 1 THEN <<"Name">> ELSE <<"e", ".", "Salary">>,
         dir |-> IF k = n THEN d ELSE IF k % 2 = 1 THEN "" ELSE "DESC"]]

OrderLists == {OrderList(n, d) : n \in 1..MaxOrderBy, d \in Directions}

ColumnLists ==
    { << <<"*">> >>,
      << <<"Name">>, <<"Salary">> >>,
      << <<"e", ".", "Name">>, <<"d", ".", "DepartmentName">> >>,
      << <<"*">>, <<"Name">> >>,
      << <<"Name">>, <<"e", ".", "*">> >>,
      << <<"Department">>, <<"COUNT", "(", "*", ")">> >>,
      << <<"Name", " ", "AS", " ", "n">>, <<"e", ".", "Salary", " ", "s">> >>,
      << <<"COALESCE", "(", "Name", ",", " ", "Salary", ")">>, <<"Salary">> >> }

ClauseOrders ==
    {p \in [1..4 -> {"W", "G", "H", "O"}] : \A i, j \in 1..4 : p[i] = p[j] => i = j}

Gaps == {<<" ">>, <<"\n">>}

\* What follows the FROM list or the last JOIN clause.
Tails == {"none", "where", "group", "having", "order", "all"}

WithTail(f, tail) ==
    [f EXCEPT
       !.where   = IF tail \in {"where", "all"} THEN WhereText ELSE <<>>,
       !.groupBy = IF tail \in {"group", "all"} THEN << <<"Department">> >> ELSE <<>>,
       !.having  = IF tail \in {"having", "all"} THEN HavingText ELSE <<>>,
       !.orderBy = IF tail \in {"order", "all"} THEN OrderList(1, "DESC") ELSE <<>>]

JoinStatements ==
    {WithTail([Plain EXCEPT !.joins = js, !.tables = TableList(1, Len(js) % 2 = 1)],
              tail) :
        js \in JoinLists, tail \in {"none", "where"}}

FromStatements ==
    {WithTail([Plain EXCEPT !.tables = TableList(n, al), !.term = tm, !.joins = js],
              tail) :
        n \in 1..MaxTables, al \in BOOLEAN, tm \in BOOLEAN,
        js \in {<<>>, JoinList(1, 8, <<" ">>)}, tail \in Tails}

OrderStatements ==
    {[Plain EXCEPT !.orderBy = ob, !.term = tm, !.cols = cs] :
        ob \in OrderLists, tm \in BOOLEAN,
        cs \in {<< <<"*">> >>, << <<"Name">>, <<"Salary">> >>}}

ColumnStatements ==
    {WithTail([Plain EXCEPT !.cols = cs, !.distinct = ds], tail) :
        cs \in ColumnLists, ds \in BOOLEAN, tail \in {"none", "where"}}

\* All four optional clauses, written in every order.
OrderedStatements ==
    {WithTail([Plain EXCEPT !.order = p, !.gap = g, !.cols = << <<"*">> >>], "all") :
        p \in ClauseOrders, g \in Gaps}
    \cup
    {WithTail([Plain EXCEPT
                 !.order = p, !.gap = g,
                 !.cols = << <<"Department">>, <<"COUNT", "(", "*", ")">> >>,
                 !.tables = TableList(2, FALSE),
                 !.joins = JoinList(1, 5, <<" ">>)], "all") :
        p \in ClauseOrders, g \in Gaps}

\* The three example queries of the component's help text (lines 329-345) and
\* the editor's initial query (src/app/page.tsx, lines 23-25).
Example1 ==
    [Plain EXCEPT !.cols = << <<"Name">>, <<"Salary">> >>, !.where = WhereText]

Example2 ==
    [Plain EXCEPT !.cols = << <<"e", ".", "Name">>, <<"d", ".", "DepartmentName">> >>,
                  !.tables = TableList(1, TRUE),
                  !.joins = JoinList(1, 8, <<" ">>)]

Example3 ==
    [Plain EXCEPT !.cols = << <<"Department">>, <<"COUNT", "(", "*", ")">> >>,
                  !.groupBy = << <<"Department">> >>]

InitialQuery ==
    [Plain EXCEPT !.lower = TRUE, !.term = TRUE,
                  !.where = <<"Salary", " ", ">", " ", "30000">>]

RawStatements ==
    {Raw(<<>>), Raw(<<" ">>), Raw(<<"\n", " ">>),
     Raw(<<"UPDATE", " ", "EMPLOYEE", " ", "SET", " ", "Salary", " ", "=", " ", "0">>),
     Raw(<<"update", " ", "EMPLOYEE", " ", "SET", " ", "Salary", " ", "=", " ", "0">>),
     Raw(<<"WITH", " ", "t", " ", "AS", " ", "(", "SELECT", " ", "*", " ", "FROM",
           " ", "EMPLOYEE", ")", " ", "SELECT", " ", "*", " ", "FROM", " ", "t">>),
     Raw(<<"(", "SELECT", " ", "*", " ", "FROM", " ", "EMPLOYEE", ")">>),
     Raw(<<"FROM", " ", "EMPLOYEE", " ", "SELECT", " ", "*">>),
     Raw(<<"SELECTED", " ", "Name", " ", "FROM", " ", "EMPLOYEE">>),
     Raw(<<"SELECT">>), Raw(<<"SELECT", " ", "1">>),
     Raw(<<"SELECT", " ", "Name", " ", "FROM">>),
     Raw(<<"SELECT", " ", "FROM", " ", "EMPLOYEE">>),
     Raw(<<"SELECT", " ", "Name", ",", "\n", "Salary", " ", "FROM", " ", "EMPLOYEE">>),
     Raw(<<" ", "select", " ", "Name", "\n", "from", " ", "EMPLOYEE", "\n">>)}

\* Statements in lower case, and between leading and trailing whitespace.
CasedStatements ==
    {[f EXCEPT !.lower = TRUE, !.lead = ld] :
        f \in {Example1, Example2, Example3,
               WithTail([Plain EXCEPT !.joins = JoinList(2, 2, <<" ">>)], "all")},
        ld \in BOOLEAN}

\* Statements with DISTINCT after SELECT; each is in Statements without it too.
DistinctStatements ==
    {[f EXCEPT !.distinct = TRUE] :
        f \in CasedStatements \cup {Example1, Example2, Example3, InitialQuery}
               \cup {g \in OrderedStatements : g.order = <<"W", "G", "H", "O">>}}

Statements ==
    JoinStatements \cup FromStatements \cup OrderStatements \cup ColumnStatements
    \cup OrderedStatements \cup CasedStatements \cup DistinctStatements
    \cup {Example1, Example2, Example3, InitialQuery} \cup RawStatements

\* The statements a later render may bring.
Revisions == {Raw(<<>>), Raw(<<"SELECT", " ", "1">>), Plain, Example3}

(***************************************************************************)
(* SQLiteCodePad (src/app/page.tsx): the page that loads the database and  *)
(* runs the query of its editor.  The engine (sqlite-wasm) is outside the   *)
(* repository: what its calls return or throw is any of the outcomes below.*)
(***************************************************************************)
MaxRows == 2

MaxChanges == 2

\* JavaScript's null for db, fileName and the page's error.
NoValue == "null"

CompanyDb == "company.db"

\* The texts typed into the page's editor.
PageQueries == {Text(InitialQuery)} \cup {f.text : f \in RawStatements}

startsWithWITH(s) == Len(s) > 0 /\ s[1] = "WITH"

\* trimmedQuery.startsWith("SELECT") || trimmedQuery.startsWith("WITH")
IsSelectQuery(q) ==
    startsWithSELECT(toUpperCase(trim(q))) \/ startsWithWITH(toUpperCase(trim(q)))

\* What db.selectObjects returns: rows of one shape, keys in column order.
EmployeeNames == <<"Ann", "Bob", "Cyd", "Dee">>

Row(k) == << <<"Name", <<EmployeeNames[k]>> >>, <<"Salary", <<"30000">> >> >>

RowSets == {[k \in 1..n |-> Row(k)] : n \in 0..MaxRows}

keys(row) == [c \in 1..Len(row) |-> row[c][1]]

values(row) == [c \in 1..Len(row) |-> row[c][2]]

selectResult(rows) ==
    IF Len(rows) > 0
    THEN [columns |-> keys(rows[1]), values |-> [r \in 1..Len(rows) |-> values(rows[r])]]
    ELSE [columns |-> <<"Result">>, values |-> << << <<"Query returned no rows">> >> >>]

execResult(changes) ==
    [columns |-> <<"Result">>,
     values |-> << << <<"Query executed successfully. ", ToString(changes),
                        " row(s) affected.">> >> >>]

\* What the engine throws: an Error with its message (which may be empty), or
\* a value that is no Error.
Thrown ==
    {[isError |-> TRUE, message |-> "near \"SELECTED\": syntax error"],
     [isError |-> TRUE, message |-> "no such table: t"],
     [isError |-> TRUE, message |-> ""],
     [isError |-> FALSE, message |-> "SQLITE_ERROR"]}

\* err instanceof Error ? err.message : <fallback>
messageOf(err, fallback) == IF err.isError THEN err.message ELSE fallback

LoadFailures ==
    {[isError |-> TRUE,
      message |-> "Database file not found. Please ensure database.db exists in the public folder."],
     [isError |-> TRUE, message |-> "Failed to load database file"],
     [isError |-> FALSE, message |-> "TypeError"]}

\* The page after its first render, the import of sqlite-wasm under way.
PageMounted ==
    /\ sqliteReady = FALSE
    /\ db = NoValue
    /\ fileName = NoValue
    /\ pageQuery = Text(InitialQuery)
    /\ pageResult = null
    /\ pageError = NoValue
    /\ isLoading = FALSE
    /\ boot = "import"
    /\ called = "never"

PageInit ==
    /\ PageMounted
    /\ typed = Plain
    /\ sqlQuery = Text(Plain)
    /\ relationalAlgebra = <<>>
    /\ error = "null"
    /\ effectDue = TRUE

\* loadSQLite: sqliteRef.current = sqlite3; setSqliteReady(true)
SqliteLoaded ==
    /\ boot = "import"
    /\ sqliteReady' = TRUE
    /\ boot' = "ready"
    /\ UNCHANGED <<db, fileName, pageQuery, pageResult, pageError, isLoading, called>>
    /\ UNCHANGED converterVars

\* loadSQLite: catch
SqliteFailed ==
    /\ boot = "import"
    /\ pageError' = "Failed to load SQLite. Please refresh the page."
    /\ boot' = "failed"
    /\ UNCHANGED <<sqliteReady, db, fileName, pageQuery, pageResult, isLoading, called>>
    /\ UNCHANGED converterVars

\* loadDatabaseFromFileSystem up to its first await
LoadStart ==
    /\ boot = "ready"
    /\ sqliteReady
    /\ isLoading' = TRUE
    /\ pageError' = NoValue
    /\ boot' = "fetch"
    /\ UNCHANGED <<sqliteReady, db, fileName, pageQuery, pageResult, called>>
    /\ UNCHANGED converterVars

\* loadDatabaseFromFileSystem: setDb(newDb) ... finally
LoadDone ==
    /\ boot = "fetch"
    /\ db' = CompanyDb
    /\ fileName' = "company.db"
    /\ pageError' = NoValue
    /\ isLoading' = FALSE
    /\ boot' = "done"
    /\ UNCHANGED <<sqliteReady, pageQuery, pageResult, called>>
    /\ UNCHANGED converterVars

\* loadDatabaseFromFileSystem: catch ... finally
LoadFailed(err) ==
    /\ boot = "fetch"
    /\ pageError' = messageOf(err, "Failed to load database file from file system")
    /\ isLoading' = FALSE
    /\ boot' = "done"
    /\ UNCHANGED <<sqliteReady, db, fileName, pageQuery, pageResult, called>>
    /\ UNCHANGED converterVars

\* <SQLEditor value={query} onChange={setQuery} disabled={!db} />
EditQuery(q) ==
    /\ db # NoValue
    /\ q # pageQuery
    /\ pageQuery' = q
    /\ UNCHANGED <<sqliteReady, db, fileName, pageResult, pageError, isLoading, boot, called>>
    /\ UNCHANGED converterVars

\* executeQuery is modelled for every call: the Execute button (line 221) makes
\* one only when db is set, isLoading is false and the query is not blank, the
\* handler itself tests db alone.  All its setState calls are batched into one
\* render, so a call is one step.
\* if (!db) { setError("Database not loaded"); return; }
ExecuteWithoutDb ==
    /\ db = NoValue
    /\ pageError' = "Database not loaded"
    /\ called' = "noDb"
    /\ UNCHANGED <<sqliteReady, db, fileName, pageQuery, pageResult, isLoading, boot>>
    /\ UNCHANGED converterVars

\* The variant of the catch branch without the setResult(null) of line 114.
ExecuteThrowsKeepsResult(err) ==
    /\ db # NoValue
    /\ pageError' = messageOf(err, "Failed to execute query")
    /\ isLoading' = FALSE
    /\ called' = "throws"
    /\ UNCHANGED <<sqliteReady, db, fileName, pageQuery, pageResult, boot>>
    /\ UNCHANGED converterVars

\* db.selectObjects(query) returns rows
ExecuteSelect(rows) ==
    /\ db # NoValue
    /\ IsSelectQuery(pageQuery)
    /\ pageResult' = selectResult(rows)
    /\ pageError' = NoValue
    /\ isLoading' = FALSE
    /\ called' = "select"
    /\ UNCHANGED <<sqliteReady, db, fileName, pageQuery, boot>>
    /\ UNCHANGED converterVars

\* db.exec(query); db.changes()
ExecuteOther(changes) ==
    /\ db # NoValue
    /\ ~IsSelectQuery(pageQuery)
    /\ pageResult' = execResult(changes)
    /\ pageError' = NoValue
    /\ isLoading' = FALSE
    /\ called' = "other"
    /\ UNCHANGED <<sqliteReady, db, fileName, pageQuery, boot>>
    /\ UNCHANGED converterVars

\* db.selectObjects, db.exec or db.changes throws: setError(null) and
\* setResult(null) of lines 113-114, then catch and finally.
ExecuteThrows(err) ==
    /\ db # NoValue
    /\ pageResult' = null
    /\ pageError' = messageOf(err, "Failed to execute query")
    /\ isLoading' = FALSE
    /\ called' = "throws"
    /\ UNCHANGED <<sqliteReady, db, fileName, pageQuery, boot>>
    /\ UNCHANGED converterVars

PageNext ==
    \/ SqliteLoaded
    \/ SqliteFailed
    \/ LoadStart
    \/ LoadDone
    \/ \E err \in LoadFailures : LoadFailed(err)
    \/ \E q \in PageQueries : EditQuery(q)
    \/ ExecuteWithoutDb
    \/ \E rows \in RowSets : ExecuteSelect(rows)
    \/ \E changes \in 0..MaxChanges : ExecuteOther(changes)
    \/ \E err \in Thrown : ExecuteThrows(err)

PageSpec == PageInit /\ [][PageNext]_vars

(***************************************************************************)
(* The component: the effect that runs whenever sqlQuery changes           *)
(***************************************************************************)
NoError == "null"

ParseError ==
    "Unable to parse SQL query. Please ensure it's a valid SELECT statement."

\* The effect is a function of the text alone; its results for the statements
\* of the model, computed once.
parsedOf == [f \in Statements |-> parseSQL(Text(f))]

\* The component is mounted with any statement as its sqlQuery prop; the effect
\* runs after the first render.
Init ==
    /\ typed \in Statements
    /\ sqlQuery = Text(typed)
    /\ relationalAlgebra = <<>>
    /\ error = NoError
    /\ effectDue = TRUE
    /\ PageMounted

\* A render with another sqlQuery: the effect's dependency [sqlQuery] changed.
SetQuery(f) ==
    /\ ~effectDue
    /\ f # typed
    /\ typed' = f
    /\ sqlQuery' = Text(f)
    /\ effectDue' = TRUE
    /\ UNCHANGED <<relationalAlgebra, error>>
    /\ UNCHANGED pageVars

\* if (!sqlQuery.trim()) { setRelationalAlgebra(""); setError(null); return; }
Blank ==
    /\ effectDue
    /\ trim(sqlQuery) = <<>>
    /\ relationalAlgebra' = <<>>
    /\ error' = NoError
    /\ effectDue' = FALSE
    /\ UNCHANGED <<sqlQuery, typed>>
    /\ UNCHANGED pageVars

\* const parsed = parseSQL(sqlQuery)
parsed == parsedOf[typed]

\* The variant of the !parsed branch that leaves out setRelationalAlgebra("").
UnparseableKeepsAlgebra ==
    /\ effectDue
    /\ trim(sqlQuery) # <<>>
    /\ parsed = null
    /\ error' = ParseError
    /\ effectDue' = FALSE
    /\ UNCHANGED <<sqlQuery, typed, relationalAlgebra>>
    /\ UNCHANGED pageVars

\* if (!parsed) { setError("Unable to parse ..."); setRelationalAlgebra(""); return; }
Unparseable ==
    /\ effectDue
    /\ trim(sqlQuery) # <<>>
    /\ parsed = null
    /\ error' = ParseError
    /\ relationalAlgebra' = <<>>
    /\ effectDue' = FALSE
    /\ UNCHANGED <<sqlQuery, typed>>
    /\ UNCHANGED pageVars

\* setRelationalAlgebra(convertToRelationalAlgebra(parsed)); setError(null);
\* the converter has no throw, so the catch of lines 241-244 is never taken.
Converted ==
    /\ effectDue
    /\ trim(sqlQuery) # <<>>
    /\ parsed # null
    /\ relationalAlgebra' = convertToRelationalAlgebra(parsed)
    /\ error' = NoError
    /\ effectDue' = FALSE
    /\ UNCHANGED <<sqlQuery, typed>>
    /\ UNCHANGED pageVars

Next ==
    \/ \E f \in Revisions : SetQuery(f)
    \/ Blank
    \/ Unparseable
    \/ Converted

Spec == Init /\ [][Next]_vars

(***************************************************************************)
(* Properties.  What the statement typed is made of is read from `typed`;  *)
(* what the program made of its text is read from parsed, error and        *)
(* relationalAlgebra.                                                      *)
(***************************************************************************)
\* The effect has run for the current sqlQuery.
Settled == ~effectDue

IsStatement(f) == f.kind = "stmt"

IsBlank(s) == \A k \in 1..Len(s) : s[k] \in {" ", "\n"}

\* The spellings of a keyword in the statements of the model.
Spelled(w) == {w, Lowered[w]}

KeywordAt(s, i, w) == i \in 1..Len(s) /\ s[i] \in Spelled(w)

AllSpace(s, a, b) == \A k \in a..b : s[k] \in {" ", "\n"}

OneLine(s, a, b) == \A k \in a..b : s[k] # "\n"

\* An expression op[args](rest) read back from its text: the operators from
\* the outermost inwards, and as last element what they wrap.
OperatorSigns == {"τ", "π", "σ", "γ"}

FirstIndex(s, t) == MinOr0({i \in 1..Len(s) : s[i] = t})

RECURSIVE Layers(_)
Peel(s, close) ==
    IF close >= 3 /\ close + 1 < Len(s) /\ s[close + 1] = "(" /\ s[Len(s)] = ")"
    THEN <<[op |-> s[1], args |-> SubSeq(s, 3, close - 1)]>>
             \o Layers(SubSeq(s, close + 2, Len(s) - 1))
    ELSE <<[op |-> "", args |-> s]>>

Layers(s) ==
    IF Len(s) > 2 /\ s[1] \in OperatorSigns /\ s[2] = "["
    THEN Peel(s, FirstIndex(s, "]"))
    ELSE <<[op |-> "", args |-> s]>>

OpsOf(ls) == [k \in 1..(Len(ls) - 1) |-> ls[k].op]

Operators(s) == OpsOf(Layers(s))

CoreOf(ls) == ls[Len(ls)].args

Core(s) == CoreOf(Layers(s))

\* C1: the statement "SELECT e.Name, d.DepartmentName FROM EMPLOYEE e JOIN
\* DEPARTMENT d ON e.DepartmentID = d.ID", whose ON condition ends the text,
\* is rendered as "π[Name, DepartmentName]((EMPLOYEE ⋈[e.DepartmentID = d.ID]
\* DEPARTMENT))".
JoinExampleText ==
    <<"SELECT", " ", "e", ".", "Name", ",", " ", "d", ".", "DepartmentName", " ",
      "FROM", " ", "EMPLOYEE", " ", "e", " ", "JOIN", " ", "DEPARTMENT", " ", "d",
      " ", "ON", " ", "e", ".", "DepartmentID", " ", "=", " ", "d", ".", "ID">>

C1_JoinExampleRendered ==
    (Settled /\ sqlQuery = JoinExampleText)
        => relationalAlgebra =
             <<"π", "[", "Name", ",", " ", "DepartmentName", "]", "(", "(",
               "EMPLOYEE", " ", "⋈", "[", "e", ".", "DepartmentID", " ", "=", " ",
               "d", ".", "ID", "]", " ", "DEPARTMENT", ")", ")">>

\* The example is converted without its join: π[Name, DepartmentName](EMPLOYEE).
C1_JoinExampleLosesJoin ==
    /\ Settled
    /\ sqlQuery = JoinExampleText
    /\ error = NoError
    /\ parsed.joins = <<>>
    /\ relationalAlgebra =
         <<"π", "[", "Name", ",", " ", "DepartmentName", "]", "(", "EMPLOYEE", ")">>

\* C2: a parsed query with WHERE, GROUP BY, HAVING and ORDER BY parts all
\* non-empty is rendered as τ around π (when emitted) around σ of HAVING around
\* γ around σ of WHERE around the joins and the base relation, whatever order
\* the clauses had in the text.
AllFourParts(p) ==
    /\ p # null
    /\ p.conditions # <<>>
    /\ p.groupBy # <<>>
    /\ p.having # <<>>
    /\ p.orderBy # <<>>

NestedFrom(ls, p, d) ==
    /\ Len(ls) = 5 + d
    /\ ls[1].op = "τ"
    /\ ls[2 + d] = [op |-> "σ", args |-> p.having[1]]
    /\ ls[3 + d] = [op |-> "γ", args |-> Flatten(p.groupBy, <<",", " ">>)]
    /\ ls[4 + d] = [op |-> "σ", args |-> p.conditions[1]]
    /\ \A k \in 1..Len(CoreOf(ls)) : CoreOf(ls)[k] \notin OperatorSigns

NestedInOrder(ls, p) ==
    Len(ls) >= 5 /\ NestedFrom(ls, p, IF ls[2].op = "π" THEN 1 ELSE 0)

C2_OperatorOrder ==
    (Settled /\ AllFourParts(parsed))
        => NestedInOrder(Layers(relationalAlgebra), parsed)

\* A statement written ORDER BY, HAVING, GROUP BY, WHERE after a join comes out
\* as τ[..](π[..](σ[..](γ[..](σ[..](..))))).
C2_ReversedClausesNested ==
    /\ Settled
    /\ IsStatement(typed)
    /\ typed.order = <<"O", "H", "G", "W">>
    /\ typed.joins # <<>>
    /\ AllFourParts(parsed)
    /\ Operators(relationalAlgebra) = <<"τ", "π", "σ", "γ", "σ">>

\* C3: a text that, trimmed, does not begin with SELECT in any letter case is
\* not parseable: parseSQL returns null, and the effect reports the error.
BeginsWithSELECT(s) ==
    \E i \in 1..Len(s) :
        /\ s[i] \in {"SELECT", "select", "SELECTED"}
        /\ AllSpace(s, 1, i - 1)

C3_NotSelectIsNull ==
    ~BeginsWithSELECT(sqlQuery)
        => /\ parsed = null
           /\ (Settled /\ ~IsBlank(sqlQuery))
                => (error = ParseError /\ relationalAlgebra = <<>>)

\* A text that holds SELECT further on (WITH ... SELECT, a parenthesised
\* SELECT, FROM ... SELECT) has been refused.
C3_LaterSelectRefused ==
    /\ Settled
    /\ ~BeginsWithSELECT(sqlQuery)
    /\ \E i \in 1..Len(sqlQuery) : sqlQuery[i] = "SELECT"
    /\ error = ParseError

\* C4: the projection π[<columns joined by ", ">](..) is emitted exactly when
\* the column list is non-empty and holds no "*" element: a list with "*" among
\* other columns is not projected.
HasProjection(s) == \E i \in 1..Len(s) : s[i] = "π"

ListsStar(columns) == \E k \in 1..Len(columns) : columns[k] = <<"*">>

ProjectionOf(ls, columns) ==
    \E k \in 1..(Len(ls) - 1) :
        ls[k] = [op |-> "π", args |-> Flatten(columns, <<",", " ">>)]

C4_ProjectionUnlessStarListed ==
    (Settled /\ parsed # null)
        => IF parsed.columns # <<>> /\ ~ListsStar(parsed.columns)
           THEN ProjectionOf(Layers(relationalAlgebra), parsed.columns)
           ELSE ~HasProjection(relationalAlgebra)

\* C4 as stated: the projection is emitted exactly when the column list is
\* non-empty and is not exactly ["*"].
C4_ProjectionUnlessOnlyStar ==
    (Settled /\ parsed # null)
        => (HasProjection(relationalAlgebra)
              <=> (parsed.columns # <<>> /\ parsed.columns # << <<"*">> >>))

\* A column list with "*" and another column has been converted with no π.
C4_StarAmongColumnsUnprojected ==
    /\ Settled
    /\ parsed # null
    /\ Len(parsed.columns) > 1
    /\ ListsStar(parsed.columns)
    /\ ~HasProjection(relationalAlgebra)

\* C5: a text beginning with SELECT is not parseable exactly when its SELECT
\* list or its FROM list cannot be located; otherwise it is parsed, and each of
\* conditions, joins, groupBy, orderBy and having is empty when the text has no
\* such clause.  The SELECT list is located when some SELECT is followed by
\* whitespace, an optional DISTINCT and whitespace, a non-empty text on one
\* line, whitespace and FROM; the FROM list when some FROM is followed by
\* whitespace and a non-empty text on one line that ends the text or is
\* followed by whitespace and WHERE, JOIN, GROUP BY, ORDER BY or HAVING.
PairAt(s, c, w1, w2) ==
    /\ KeywordAt(s, c, w1)
    /\ \E d \in (c + 2)..Len(s) : AllSpace(s, c + 1, d - 1) /\ KeywordAt(s, d, w2)

LeadIn(s, i, a) ==
    \/ AllSpace(s, i + 1, a - 1)
    \/ \E d \in (i + 2)..(a - 2) :
          /\ KeywordAt(s, d, "DISTINCT")
          /\ AllSpace(s, i + 1, d - 1)
          /\ AllSpace(s, d + 1, a - 1)

SelectListLocated(s) ==
    \E i \in 1..Len(s), j \in 1..Len(s) :
        /\ KeywordAt(s, i, "SELECT")
        /\ KeywordAt(s, j, "FROM")
        /\ \E a \in (i + 2)..(j - 2), b \in (i + 2)..(j - 2) :
              /\ a <= b
              /\ AllSpace(s, b + 1, j - 1)
              /\ OneLine(s, a, b)
              /\ LeadIn(s, i, a)

FromBoundary(s, p) ==
    \/ p = Len(s) + 1
    \/ \E c \in (p + 1)..Len(s) :
          /\ AllSpace(s, p, c - 1)
          /\ \/ KeywordAt(s, c, "WHERE")
             \/ KeywordAt(s, c, "JOIN")
             \/ KeywordAt(s, c, "HAVING")
             \/ PairAt(s, c, "GROUP", "BY")
             \/ PairAt(s, c, "ORDER", "BY")

FromListLocated(s) ==
    \E i \in 1..Len(s) :
        /\ KeywordAt(s, i, "FROM")
        /\ \E a \in (i + 2)..Len(s) :
              /\ AllSpace(s, i + 1, a - 1)
              /\ \E b \in a..Len(s) : OneLine(s, a, b) /\ FromBoundary(s, b + 1)

Absent(s, w) == \A i \in 1..Len(s) : ~KeywordAt(s, i, w)

DefaultsEmpty(s, p) ==
    /\ Absent(s, "WHERE") => p.conditions = <<>>
    /\ Absent(s, "JOIN") => p.joins = <<>>
    /\ Absent(s, "GROUP") => p.groupBy = <<>>
    /\ Absent(s, "ORDER") => p.orderBy = <<>>
    /\ Absent(s, "HAVING") => p.having = <<>>

C5_NullIffListNotLocated ==
    BeginsWithSELECT(sqlQuery)
        => /\ parsed = null
                <=> ~(SelectListLocated(trim(sqlQuery))
                        /\ FromListLocated(trim(sqlQuery)))
           /\ parsed # null => DefaultsEmpty(sqlQuery, parsed)

\* "SELECT Name FROM": the SELECT list is there, the FROM list is not, and the
\* effect has reported the error.
C5_MissingFromListRefused ==
    /\ Settled
    /\ BeginsWithSELECT(sqlQuery)
    /\ SelectListLocated(trim(sqlQuery))
    /\ ~FromListLocated(trim(sqlQuery))
    /\ parsed = null
    /\ error = ParseError

\* C6: the base relation of the rendering is the bare table name when the FROM
\* list has one table, and otherwise "(" the FROM tables in source order
\* separated by " × " ")", every alias dropped.
ClaimedNames(tables) == [k \in 1..Len(tables) |-> <<tables[k].name>>]

ClaimedBase(f) ==
    IF Len(f.tables) = 1 THEN <<f.tables[1].name>>
    ELSE <<"(">> \o Flatten(ClaimedNames(f.tables), <<" ", "×", " ">>) \o <<")">>

\* The innermost operand of core is base: core is base, or base after the "("
\* of the joins and before the " " of the first join.
BaseIs(core, base) ==
    \E k \in 0..Len(core) :
        /\ \A m \in 1..k : core[m] = "("
        /\ k + Len(base) <= Len(core)
        /\ SubSeq(core, k + 1, k + Len(base)) = base
        /\ (k + Len(base) = Len(core) \/ core[k + Len(base) + 1] = " ")

C6_BaseRelation ==
    (Settled /\ IsStatement(typed) /\ parsed # null)
        => BaseIs(Core(relationalAlgebra), ClaimedBase(typed))

\* "SELECT * FROM EMPLOYEE, DEPARTMENT;" is converted to a product whose last
\* operand is "DEPARTMENT;".
C6_TerminatorInBase ==
    /\ Settled
    /\ sqlQuery = <<"SELECT", " ", "*", " ", "FROM", " ", "EMPLOYEE", ",", " ",
                    "DEPARTMENT", ";">>
    /\ relationalAlgebra =
         <<"(", "EMPLOYEE", " ", "×", " ", "DEPARTMENT", ";", ")">>

\* C7: every ORDER BY item is rendered inside τ[...] as "<column> <direction>"
\* in source order, the direction DESC only when the item's second token is
\* DESC in any letter case and ASC otherwise; a terminating ";" is not part of
\* the last item.  (A parsed statement whose last clause is ORDER BY.)
ClaimedDirection(d) == IF d \in {"DESC", "desc", "Desc"} THEN "DESC" ELSE "ASC"

ClaimedOrdering(items) ==
    Flatten([k \in 1..Len(items) |->
                items[k].column \o <<" ", ClaimedDirection(items[k].dir)>>],
            <<",", " ">>)

OrderByLast(f) ==
    /\ f.orderBy # <<>>
    /\ \E k \in 1..4 :
          /\ f.order[k] = "O"
          /\ \A m \in (k + 1)..4 : ClauseText(f, f.order[m]) = <<>>

C8_TwoOutcomes ==
    Settled
        => /\ ~(error # NoError /\ relationalAlgebra # <<>>)
           /\ IsBlank(sqlQuery) => (error = NoError /\ relationalAlgebra = <<>>)
           /\ (~IsBlank(sqlQuery) /\ parsed = null)
                => (error = ParseError /\ relationalAlgebra = <<>>)
           /\ (~IsBlank(sqlQuery) /\ parsed # null)
                => (error = NoError /\ relationalAlgebra # <<>>)

\* "SELECT 1" has been refused: the error is set and the algebra string empty.
C8_ErrorWithoutAlgebra ==
    /\ Settled
    /\ sqlQuery = <<"SELECT", " ", "1">>
    /\ error = ParseError
    /\ relationalAlgebra = <<>>

\* C9: every join the extractor recognises, however much whitespace separates
\* the words of its phrase, is rendered as (<acc> <symbol>[<condition>] <table>)
\* with ⟕ for LEFT [OUTER] JOIN, ⟖ for RIGHT [OUTER] JOIN, ⟗ for FULL [OUTER]
\* JOIN and ⋈ for INNER JOIN and JOIN, the whitespace runs of the condition
\* collapsed to single spaces.
ClaimedSymbol(phrase) ==
    IF phrase[1] = "LEFT" THEN "⟕"
    ELSE IF phrase[1] = "RIGHT" THEN "⟖"
    ELSE IF phrase[1] = "FULL" THEN "⟗"
    ELSE "⋈"

RECURSIVE Squeezed(_)
Squeezed(c) ==
    IF c = <<>> THEN <<>>
    ELSE IF Len(c) >= 2 /\ c[1] \in {" ", "\n"} /\ c[2] \in {" ", "\n"}
    THEN Squeezed(Tail(c))
    ELSE <<IF c[1] = "\n" THEN " " ELSE c[1]>> \o Squeezed(Tail(c))

RECURSIVE ClaimedJoins(_, _)
ClaimedJoins(acc, joins) ==
    IF joins = <<>> THEN acc
    ELSE ClaimedJoins(<<"(">> \o acc \o <<" ", ClaimedSymbol(Head(joins).phrase), "[">>
                          \o Squeezed(Head(joins).cond)
                          \o <<"]", " ", Head(joins).name, ")">>,
                      Tail(joins))

C9_JoinSymbols ==
    (/\ Settled
     /\ IsStatement(typed)
     /\ parsed # null
     /\ typed.joins # <<>>
     /\ Len(parsed.joins) = Len(typed.joins))
        => Core(relationalAlgebra) = ClaimedJoins(ClaimedBase(typed), typed.joins)

\* "... FROM EMPLOYEE e LEFT  JOIN DEPARTMENT d ON ... WHERE ...", two spaces
\* inside the phrase: the join is recognised and rendered with ⋈.
C9_SpacedLeftJoinAsInner ==
    /\ Settled
    /\ IsStatement(typed)
    /\ Len(typed.joins) = 1
    /\ typed.joins[1].phrase = <<"LEFT", "JOIN">>
    /\ typed.joins[1].sep = <<" ", " ">>
    /\ parsed # null
    /\ Len(parsed.joins) = 1
    /\ parsed.joins[1].type = <<"LEFT", " ", " ", "JOIN">>
    /\ \E i \in 1..Len(relationalAlgebra) : relationalAlgebra[i] = "⋈"

\* C10: a statement with several well-formed JOIN clauses gets one join record
\* per clause, in source order, none lost or merged, and the rendering folds
\* them in that order: the first join innermost, the last outermost.
JoinSigns == {"⋈", "⟕", "⟖", "⟗"}

KindErased(s) == [k \in 1..Len(s) |-> IF s[k] \in JoinSigns THEN "⋈" ELSE s[k]]

C10_JoinsKeptInOrder ==
    (Settled /\ IsStatement(typed) /\ Len(typed.joins) >= 2 /\ parsed # null)
        => /\ Len(parsed.joins) = Len(typed.joins)
           /\ \A k \in 1..Len(typed.joins) :
                 parsed.joins[k].table = <<typed.joins[k].name>>
           /\ KindErased(Core(relationalAlgebra))
                = KindErased(ClaimedJoins(ClaimedBase(typed), typed.joins))

\* "SELECT * FROM EMPLOYEE JOIN DEPARTMENT d ON ... JOIN PROJECT ON x  = y",
\* the second join ending the text: one join record, PROJECT is not joined.
C10_LastJoinLost ==
    /\ Settled
    /\ IsStatement(typed)
    /\ typed.joins = JoinList(2, 8, <<" ">>)
    /\ typed.order = <<"W", "G", "H", "O">>
    /\ typed.where = <<>>
    /\ ~typed.term
    /\ parsed # null
    /\ Len(parsed.joins) = 1
    /\ \A i \in 1..Len(relationalAlgebra) : relationalAlgebra[i] # "PROJECT"

\* C11: the SELECT list is split into items at top-level commas only: a comma
\* inside parentheses starts no new column, so there are as many columns as
\* top-level items, and each item without parentheses gives its text with the
\* table prefix stripped and the trailing alias discarded.
Unprefixed(item) ==
    IF Len(item) >= 3 /\ item[2] = "." THEN SubSeq(item, 3, Len(item)) ELSE item

BeforeAlias(item, sp) == IF sp = 0 THEN item ELSE SubSeq(item, 1, sp - 1)

ClaimedColumn(item) == BeforeAlias(Unprefixed(item), FirstIndex(Unprefixed(item), " "))

HasParenthesis(item) == \E k \in 1..Len(item) : item[k] = "("

C11_TopLevelCommas ==
    (Settled /\ IsStatement(typed) /\ parsed # null)
        => /\ Len(parsed.columns) = Len(typed.cols)
           /\ \A k \in 1..Len(typed.cols) :
                 ~HasParenthesis(typed.cols[k])
                     => parsed.columns[k] = ClaimedColumn(typed.cols[k])

\* "SELECT COALESCE(Name, Salary), Salary FROM EMPLOYEE", two items, has been
\* parsed into the three columns "COALESCE(Name", "Salary)" and "Salary".
C11_CallSplitAtItsComma ==
    /\ Settled
    /\ IsStatement(typed)
    /\ typed.cols = << <<"COALESCE", "(", "Name", ",", " ", "Salary", ")">>,
                       <<"Salary">> >>
    /\ parsed # null
    /\ parsed.columns = << <<"COALESCE", "(", "Name">>, <<"Salary", ")">>,
                           <<"Salary">> >>

\* C12: DISTINCT leaves no trace: a statement with DISTINCT after SELECT gets
\* the ParsedQuery, and by the effect the rendering and the error, of the same
\* statement without DISTINCT, and DISTINCT is never in a column.
Undistinct(f) == [f EXCEPT !.distinct = FALSE]

RenderingOf(p) == IF p = null THEN <<>> ELSE convertToRelationalAlgebra(p)

ErrorOf(p) == IF p = null THEN ParseError ELSE NoError

NoDistinctColumn(p) ==
    p # null
        => \A k \in 1..Len(p.columns) : \A m \in 1..Len(p.columns[k]) :
               p.columns[k][m] \notin Spelled("DISTINCT")

C12_DistinctLeavesNoTrace ==
    (IsStatement(typed) /\ typed.distinct)
        => /\ parsed = parsedOf[Undistinct(typed)]
           /\ NoDistinctColumn(parsed)
           /\ Settled
                => /\ relationalAlgebra = RenderingOf(parsedOf[Undistinct(typed)])
                   /\ error = ErrorOf(parsedOf[Undistinct(typed)])

\* "select distinct Name, Salary from EMPLOYEE where Department = 'IT'" has
\* been converted to π[Name, Salary](σ[Department = 'IT'](EMPLOYEE)).
C12_LowerCaseDistinctConverted ==
    /\ Settled
    /\ IsStatement(typed)
    /\ typed.distinct
    /\ typed.lower
    /\ \E i \in 1..Len(sqlQuery) : sqlQuery[i] = "distinct"
    /\ parsed # null
    /\ parsed.columns = << <<"Name">>, <<"Salary">> >>
    /\ relationalAlgebra =
         <<"π", "[", "Name", ",", " ", "Salary", "]", "(", "σ", "[", "Department",
           " ", "=", " ", "'", "IT", "'", "]", "(", "EMPLOYEE", ")", ")">>

\* C13: every call of executeQuery made while a database is loaded ends with
\* isLoading false and with exactly one of result and error non-null, a result
\* after a SELECT/WITH query or another statement, an error after the engine
\* threw; nothing an earlier call left stays beside it.
CallWithDb == called \in {"select", "other", "throws"}

C13_ExactlyOneOfResultAndError ==
    CallWithDb
        => /\ isLoading = FALSE
           /\ (pageResult # null) # (pageError # NoValue)
           /\ called = "throws" => (pageResult = null /\ pageError # NoValue)
           /\ called \in {"select", "other"}
                => (pageError = NoValue /\ pageResult.columns # <<>>)

\* A WITH query on which the engine threw "no such table: t": the error is
\* set and no result is shown.
C13_ThrowLeavesErrorAlone ==
    /\ called = "throws"
    /\ db = CompanyDb
    /\ Len(pageQuery) > 0
    /\ pageQuery[1] = "WITH"
    /\ pageError = "no such table: t"
    /\ pageResult = null
    /\ isLoading = FALSE

=============================================================================
